---------------------------- MODULE Spec2Model ----------------------------
(***************************************************************************)
(* Response interpreter of the crop-analysis client:                       *)
(* GeminiVLMClient._parse_response (src/Gemini_VLM_Client.py).             *)
(*                                                                         *)
(* A Python str is modelled as the sequence of its Unicode code points, so *)
(* that len(), slicing, substring containment, split, strip and lstrip are *)
(* computed character by character as Python computes them.                *)
(***************************************************************************)
EXTENDS Integers, Sequences, FiniteSets

\* One call of _parse_response: its arguments, its position and its result
VARIABLES response, query, language, pc, result

\* The client instance and the calls made on it, in order, with their outcomes
VARIABLES client, calls

\* Program start: the process environment, the .env file and whether dotenv
\* is installed, Config.GEMINI_API_KEY, the issues of the last
\* validate_config, the position of the start-up, and the devices and
\* services the window holds (camera, recognizer, gemini_model)
VARIABLES environ, dotenv, config_key, issues, boot, dev

\* The window: its attributes and widgets (ui), the analysis threads and the
\* recording threads it has started, in the order of their start, and the
\* notifications queued for the primary thread
VARIABLES ui, analyses, recordings, events

\* Voice_System.py: the VoiceSystem object (is_recording, audio_data), the
\* record() threads it has started, and where its caller is: idle, or inside
\* the wait loop of stop_recording, with what the last call returned
VARIABLES voice_system, record_threads, caller

parseVars == <<response, query, language, pc, result>>
clientVars == <<client, calls>>
startVars == <<environ, dotenv, config_key, issues, boot, dev>>

guiVars == <<ui, analyses, recordings, events>>
voiceVars == <<voice_system, record_threads, caller>>

vars == <<parseVars, clientVars, startVars, guiVars, voiceVars>>

---------------------------------------------------------------------------
(* Characters (code points) *)

NL == 10          \* "\n"
SP == 32          \* " "
DOT == 46         \* "."
DASH == 45        \* "-"
BULLET == 8226    \* U+2022, the bullet character
IDEOSP == 12288   \* U+3000, ideographic space: whitespace for str.strip()

\* Digit(d): the character of the decimal digit d
Digit(d) == 48 + d

\* str.isspace() of one character: what str.strip() with no argument removes
IsSpace(c) ==
    \/ c \in 9..13
    \/ c \in 28..32
    \/ c \in {133, 160, 5760}
    \/ c \in 8192..8202
    \/ c \in {8232, 8233, 8239, 8287, 12288}

---------------------------------------------------------------------------
(* Python str operations *)

Min(S) == CHOOSE x \in S : \A y \in S : x <= y
Max(S) == CHOOSE x \in S : \A y \in S : x >= y

\* w in s
Contains(w, s) ==
    \E i \in 1..(Len(s) - Len(w) + 1) : SubSeq(s, i, i + Len(w) - 1) = w

\* any(word in s for word in words), words a list
AnyWordIn(words, s) == \E k \in 1..Len(words) : Contains(words[k], s)

\* s.startswith(p)
StartsWith(s, p) == Len(s) >= Len(p) /\ SubSeq(s, 1, Len(p)) = p

\* s.split('\n'): k newlines give k+1 parts, the empty string gives ['']
Split(s) ==
    LET nl == {i \in 1..Len(s) : s[i] = NL}
        ends == nl \cup {Len(s) + 1}
        \* the k-th part runs from after the (k-1)-th newline to before the k-th
        EndOf(k) == CHOOSE e \in ends : Cardinality({j \in nl : j < e}) = k - 1
        StartOf(k) == IF k = 1 THEN 1 ELSE EndOf(k - 1) + 1
    IN  [k \in 1..(Cardinality(nl) + 1) |-> SubSeq(s, StartOf(k), EndOf(k) - 1)]

\* s.strip()
Strip(s) ==
    LET keep == {i \in 1..Len(s) : ~IsSpace(s[i])}
    IN  IF keep = {} THEN <<>> ELSE SubSeq(s, Min(keep), Max(keep))

\* s.lstrip(chars): drops the longest prefix made of characters of chars
LStrip(s, chars) ==
    LET keep == {i \in 1..Len(s) : s[i] \notin chars}
    IN  IF keep = {} THEN <<>> ELSE SubSeq(s, Min(keep), Len(s))

\* xs[:n]
Take(xs, n) == SubSeq(xs, 1, IF Len(xs) < n THEN Len(xs) ELSE n)

---------------------------------------------------------------------------
(* GeminiVLMClient._parse_response *)

\* ["U+5065 U+5EB7", "U+6B63 U+5E38", "U+826F U+597D"]: healthy, normal, good
HealthyWords == << <<20581, 24247>>, <<27491, 24120>>, <<33391, 22909>> >>

\* Mutant: the last problem word forgotten
ProblemWordsShort == << <<30149>>, <<34802, 23475>> >>

\* ["U+75C5", "U+87F2 U+5BB3", "U+554F U+984C"]: disease, pest damage, problem
ProblemWords == << <<30149>>, <<34802, 23475>>, <<21839, 38988>> >>

\* "analysis complete"
DiagnosisDefault == <<20998, 26512, 23436, 25104>>
\* "the crop is in good health"
DiagnosisHealthy ==
    <<20316, 29289, 20581, 24247, 29376, 27841, 33391, 22909>>
\* "problem found - see the recommendations"
DiagnosisProblem ==
    <<30332, 29694, 21839, 38988, SP, DASH, SP, 35531, 26597, 30475, 24314, 35696>>

\* Mutant: the problem words tested before the healthy words
DiagnoseProblemFirst(resp) ==
    IF AnyWordIn(ProblemWords, resp) THEN DiagnosisProblem
    ELSE IF AnyWordIn(HealthyWords, resp) THEN DiagnosisHealthy
    ELSE DiagnosisDefault

\* Mutant: diagnosis initialised to the empty string
DiagnoseEmptyDefault(resp) ==
    IF AnyWordIn(HealthyWords, resp) THEN DiagnosisHealthy
    ELSE IF AnyWordIn(ProblemWords, resp) THEN DiagnosisProblem
    ELSE <<>>

\* diagnosis = default; if any healthy word: healthy; elif any problem word
Diagnose(resp) ==
    IF AnyWordIn(HealthyWords, resp) THEN DiagnosisHealthy
    ELSE IF AnyWordIn(ProblemWords, resp) THEN DiagnosisProblem
    ELSE DiagnosisDefault

\* ['1.', '2.', '3.', '-', bullet]
ListMarkers ==
    << <<Digit(1), DOT>>, <<Digit(2), DOT>>, <<Digit(3), DOT>>,
       <<DASH>>, <<BULLET>> >>

\* the characters of '123456789.-' plus the bullet and the space: lstrip's argument
StripChars == {Digit(d) : d \in 1..9} \cup {DOT, DASH, BULLET, SP}

\* any(line.startswith(p) for p in [...]), line already stripped
IsCandidate(line) == \E k \in 1..Len(ListMarkers) : StartsWith(line, ListMarkers[k])

\* clean_rec = line.lstrip(<StripChars>).strip()
CleanRec(line) == Strip(LStrip(line, StripChars))

\* Mutant: len(clean_rec) > 3
KeepLoose(clean_rec) == Len(clean_rec) > 3

\* Mutant: len(clean_rec) >= 5
KeepOffByOne(clean_rec) == Len(clean_rec) >= 5

\* len(clean_rec) > 5
Keep(clean_rec) == Len(clean_rec) > 5

\* the for loop over lines: the recommendations appended, in order
RECURSIVE ExtractRecommendations(_)
ExtractRecommendations(lines) ==
    IF lines = <<>> THEN <<>>
    ELSE LET line == Strip(Head(lines))
             rest == ExtractRecommendations(Tail(lines))
         IN  IF IsCandidate(line) /\ Keep(CleanRec(line))
             THEN <<CleanRec(line)>> \o rest
             ELSE rest

\* the three generic suggestions used when nothing was extracted
FallbackRecommendations ==
    << <<23450, 26399, 30435, 23519, 26893, 29289, 20581, 24247, 29376, 27841>>,
       <<30906, 20445, 36969, 30070, 30340, 28550, 27700, 26178, 38291, 34920>>,
       <<27298, 26597, 23475, 34802, 27963, 21205>> >>

\* Mutant: no fallback
OrFallbackMissing(recs) == recs

\* if not recommendations: recommendations = [the fallback]
OrFallback(recs) == IF recs = <<>> THEN FallbackRecommendations ELSE recs

\* Mutant: recommendations[-5:]
TruncateLast(recs) ==
    IF Len(recs) <= 5 THEN recs ELSE SubSeq(recs, Len(recs) - 4, Len(recs))

\* recommendations[:5]
Truncate(recs) == Take(recs, 5)

\* the names of the fields of the returned dict
RecordFields ==
    {"diagnosis", "confidence", "recommendations", "raw_response", "query",
     "language", "model"}

\* Mutant: the five entries read by index, an IndexError when there are fewer
ParseResponseIndexing(resp, q, lang) ==
    LET recs == OrFallback(ExtractRecommendations(Split(resp)))
    IN  IF Len(recs) < 5
        THEN [exception |-> "IndexError"]
        ELSE [diagnosis |-> Diagnose(resp),
              confidence |-> "0.85",
              recommendations |-> Truncate(recs),
              raw_response |-> resp,
              query |-> q,
              language |-> "zh",
              model |-> "gemini-1.5-pro-vision"]

\* Mutant: the language argument stored in the record
ParseResponseLanguageArg(resp, q, lang) ==
    [diagnosis |-> Diagnose(resp),
     confidence |-> "0.85",
     recommendations |-> Truncate(OrFallback(ExtractRecommendations(Split(resp)))),
     raw_response |-> resp,
     query |-> q,
     language |-> lang,
     model |-> "gemini-1.5-pro-vision"]

\* _parse_response(response, query, language).  No operation of the body
\* (in, split, strip, startswith, lstrip, len, slicing) raises on a str.
ParseResponse(resp, q, lang) ==
    [diagnosis |-> Diagnose(resp),
     confidence |-> "0.85",
     recommendations |-> Truncate(OrFallback(ExtractRecommendations(Split(resp)))),
     raw_response |-> resp,
     query |-> q,
     language |-> "zh",
     model |-> "gemini-1.5-pro-vision"]

\* whether a call's outcome is an exception rather than a returned dict
IsException(r) == "exception" \in DOMAIN r

---------------------------------------------------------------------------
(* GeminiVLMClient as an object: calls on one instance *)

\* Python's None
None == [none |-> TRUE]

\* Mutant: the recommendations list kept on the instance between calls
ParseCallKeeping(inst, resp, q, lang) ==
    LET kept == IF "recs" \in DOMAIN inst THEN inst.recs ELSE <<>>
        recs == kept \o ExtractRecommendations(Split(resp))
    IN  [record |-> [ParseResponse(resp, q, lang) EXCEPT
                        !.recommendations = Truncate(OrFallback(recs))],
         self |-> [model |-> inst.model, recs |-> recs]]

\* self._parse_response(...) on the instance inst: the returned record and
\* the instance after the call.  The body reads no attribute of self and
\* assigns none; its lists are created anew by each call.
ParseCall(inst, resp, q, lang) ==
    [record |-> ParseResponse(resp, q, lang), self |-> inst]

\* "analysis succeeded", the message returned with a record
AnalysisSucceeded == "analysis succeeded"

\* f"Gemini<analysis failed>: {str(e)}"
FailureMessage(e) == "Gemini analysis failed: " \o e.text

\* Mutant: except IOError
CatchesIOOnly(e) == e.exception \in {"FileNotFoundError"}

\* except Exception as e: every exception the body can meet derives from it
Catches(e) == e.exception \in
    {"FileNotFoundError", "ResourceExhausted", "ValueError", "IndexError"}

\* analyze_crop_image(image_path, query, language) on the instance inst, with
\* the outcomes of its external calls: opened (Image.open: "ok" or an
\* exception) and reply (generate_content and response.text: a text or an
\* exception).  The outcome is a returned pair or an exception that escapes.
AnalyzeCropImage(inst, q, lang, opened, reply) ==
    LET parsed == ParseCall(inst, reply.text, q, lang)
        body ==
            IF IsException(opened) THEN opened
            ELSE IF IsException(reply) THEN reply
            ELSE IF IsException(parsed.record) THEN parsed.record
            ELSE [value |-> <<parsed.record, AnalysisSucceeded>>]
        after ==
            IF IsException(opened) \/ IsException(reply) THEN inst
            ELSE parsed.self
    IN  [outcome |-> IF IsException(body) /\ Catches(body)
                     THEN [value |-> <<None, FailureMessage(body)>>]
                     ELSE body,
         self |-> after]

---------------------------------------------------------------------------
(* config.py: Config and its validation *)

\* The default of os.getenv("GEMINI_API_KEY", ...): a key written in the source
DefaultApiKey == "AIzaSy-key-in-source"

\* The placeholder validate_config compares the key with
PlaceholderApiKey == "YOUR_GEMINI_API_KEY_HERE"

\* A variable of the environment: unset, or set to a string
Unset == [set |-> FALSE]
SetTo(s) == [set |-> TRUE, value |-> s]

\* load_dotenv(): without the package (ImportError) or without a .env file
\* the environment stays; a variable already set is not overridden
LoadDotenv(env, d) ==
    IF d.installed /\ d.file.set /\ ~env.set THEN SetTo(d.file.value) ELSE env

\* os.getenv(name, default)
Getenv(env, default) == IF env.set THEN env.value ELSE default

\* Config.validate_config(): the list of issues (the directories it creates
\* are not modelled)
ValidateConfig(key) ==
    IF key = PlaceholderApiKey THEN <<"Gemini API key not configured">> ELSE <<>>

---------------------------------------------------------------------------
(* Inputs: the raw response texts, queries and language tags of the calls *)

MaxSegs == 3      \* segments of a text composed of short segments
MaxLines == 6     \* lines of a text composed of whole lines

\* "water twice a week" (6 characters, no keyword)
BodyWater == <<27599, 36913, 28550, 27700, 20841, 27425>>
\* "keep the soil moist" (6 characters, no keyword)
BodySoil == <<22303, 22756, 20445, 25345, 28629, 28516>>
\* "more ventilation" (5 characters, no keyword)
BodyAir == <<21152, 24375, 36890, 39080, 37327>>

\* The segments short texts are composed of: separators, list markers with
\* numbers inside and outside 1..3, a digit, keywords and bodies.
Segments ==
    { <<NL>>, <<SP>>, <<IDEOSP>>,
      <<Digit(1), DOT>>, <<Digit(4), DOT>>, <<DASH>>, <<BULLET>>,
      <<Digit(3)>>,
      <<20581, 24247>>, <<30149>>,
      BodyWater, BodyAir }

\* The whole lines long texts are composed of: two accepted list lines and a
\* list line too short to keep.
Lines ==
    { <<DASH>> \o BodyWater,
      <<Digit(2), DOT, SP>> \o BodySoil,
      <<BULLET, SP>> \o BodyAir }

RECURSIVE Concat(_)
Concat(ss) == IF ss = <<>> THEN <<>> ELSE Head(ss) \o Concat(Tail(ss))

\* "\n".join(ls)
RECURSIVE Join(_)
Join(ls) ==
    IF ls = <<>> THEN <<>>
    ELSE IF Len(ls) = 1 THEN ls[1]
    ELSE ls[1] \o <<NL>> \o Join(Tail(ls))

SegmentTexts ==
    {Concat(ss) : ss \in UNION {[1..n -> Segments] : n \in 0..MaxSegs}}

LineTexts ==
    {Join(ls) : ls \in UNION {[1..n -> Lines] : n \in 0..MaxLines}}

\* "1. <healthy><state><good>\n2. <irrigate regularly>\n3. <no medication>"
ScenarioText ==
    <<Digit(1), DOT, SP, 20581, 24247, 29376, 27841, 33391, 22909, NL,
      Digit(2), DOT, SP, 23450, 26399, 28748, 28297, NL,
      Digit(3), DOT, SP, 28961, 38656, 29992, 34277>>

\* The six keywords of the two lists, as a reply may contain them
ReplyHealthy == << <<20581, 24247>>, <<27491, 24120>>, <<33391, 22909>> >>
ReplyProblem == << <<30149>>, <<34802, 23475>>, <<21839, 38988>> >>

\* Each keyword alone, one of each kind together, and keywords cut short
KeywordTexts ==
    {ReplyHealthy[k] : k \in 1..3} \cup {ReplyProblem[k] : k \in 1..3}
    \cup {ReplyHealthy[j] \o ReplyProblem[k] : j \in 1..3, k \in 1..3}
    \cup {ReplyProblem[k] \o <<NL>> \o ReplyHealthy[j] : j \in 1..3, k \in 1..3}
    \cup {<<20581>>, <<34802>>, <<38988, 21839>>}

Texts == SegmentTexts \cup LineTexts \cup KeywordTexts \cup {ScenarioText}

Queries == {"", "why do the leaves wilt?"}
Languages == {"zh", "en"}

---------------------------------------------------------------------------
(* The parts of the program a specification leaves at rest *)

\* The devices and services before __init__ has run
NoDevices == [gemini_model |-> FALSE, recognizer |-> FALSE, camera |-> FALSE]

\* The start-up variables of a program whose start-up is not under study
StartIdle ==
    /\ environ = Unset
    /\ dotenv = [installed |-> FALSE, file |-> Unset]
    /\ config_key = DefaultApiKey
    /\ issues = <<>>
    /\ boot = "running"
    /\ dev = NoDevices

\* Mutant: init_ui leaves the analyze, save and speak buttons enabled
NewWindowEnabled ==
    [current_image |-> "", current_analysis |-> None, is_recording |-> FALSE,
     record_text |-> "record", voice_text |-> <<>>,
     analyze_enabled |-> TRUE, analyze_text |-> "analyze crop",
     save_enabled |-> TRUE, speak_enabled |-> TRUE, dialog |-> "none",
     written |-> None]

\* The window as __init__ and init_ui leave it: no image, no analysis, the
\* analyze, save and speak buttons disabled, the voice text box empty; dialog
\* is the message box the last handler showed and written the record the
\* last handler wrote to a results file
NewWindow ==
    [current_image |-> "", current_analysis |-> None, is_recording |-> FALSE,
     record_text |-> "record", voice_text |-> <<>>,
     analyze_enabled |-> FALSE, analyze_text |-> "analyze crop",
     save_enabled |-> FALSE, speak_enabled |-> FALSE, dialog |-> "none",
     written |-> None]

\* The window of a program whose window is not under study
GuiIdle ==
    /\ ui = NewWindow
    /\ analyses = <<>>
    /\ recordings = <<>>
    /\ events = <<>>

\* VoiceSystem as __init__ leaves it, with no thread and an idle caller
NoAudio == "None"
NewVoiceSystem == [is_recording |-> FALSE, audio_data |-> NoAudio]
IdleCaller ==
    [at |-> "idle", timeout |-> 0, waited_idle |-> FALSE, returned |-> None]

\* The VoiceSystem of a program whose VoiceSystem is not under study
VoiceIdle ==
    /\ voice_system = NewVoiceSystem
    /\ record_threads = <<>>
    /\ caller = IdleCaller

---------------------------------------------------------------------------
(* The calls *)

\* GeminiVLMClient.__init__: the only attribute of the instance is the model
NewClient == [model |-> "gemini-1.5-pro-vision-latest"]

NoResult == [none |-> TRUE]

Init ==
    /\ response \in Texts
    /\ query = ""
    /\ language = ""
    /\ pc = "ready"
    /\ result = NoResult
    /\ client = NewClient
    /\ calls = <<>>
    /\ StartIdle
    /\ GuiIdle
    /\ VoiceIdle

\* analyze_crop_image's call: result = self._parse_response(text, query, language)
Call(q, lang) ==
    /\ pc = "ready"
    /\ query' = q
    /\ language' = lang
    /\ LET r == ParseResponse(response, q, lang)
       IN  /\ result' = r
           /\ pc' = IF IsException(r) THEN "raised" ELSE "returned"
    /\ UNCHANGED <<response, clientVars, voiceVars, startVars, guiVars>>

Next == \E q \in Queries, lang \in Languages : Call(q, lang)

Spec == Init /\ [][Next]_vars

---------------------------------------------------------------------------
(* Calls on one client instance *)

MaxCalls == 3     \* calls made on the instance

\* The replies of the remote model: an empty text and a one-line list
ClientTexts == {<<>>, <<DASH>> \o BodyWater}

\* What Image.open does: it returns, or the file is missing
OpenOutcomes ==
    {[ok |-> TRUE],
     [exception |-> "FileNotFoundError", text |-> "no such file"]}

\* What generate_content and response.text do: a text, an API error, or
\* response.text raising on a reply without text (with an empty message)
ReplyOutcomes ==
    {[text |-> t] : t \in ClientTexts}
    \cup {[exception |-> "ResourceExhausted", text |-> "quota exceeded"],
          [exception |-> "ValueError", text |-> ""]}

InitClient ==
    /\ response = <<>>
    /\ query = ""
    /\ language = ""
    /\ pc = "ready"
    /\ result = NoResult
    /\ client = NewClient
    /\ calls = <<>>
    /\ StartIdle
    /\ GuiIdle
    /\ VoiceIdle

\* client._parse_response(resp, q, lang)
CallParse(resp, q, lang) ==
    /\ Len(calls) < MaxCalls
    /\ LET c == ParseCall(client, resp, q, lang)
       IN  /\ client' = c.self
           /\ calls' = Append(calls,
                  [fn |-> "_parse_response", args |-> <<resp, q, lang>>,
                   failed |-> FALSE, outcome |-> c.record])
    /\ UNCHANGED <<parseVars, startVars, guiVars, voiceVars>>

\* client.analyze_crop_image(path, q), language left at its default "zh"
CallAnalyze(q, opened, reply) ==
    /\ Len(calls) < MaxCalls
    /\ LET c == AnalyzeCropImage(client, q, "zh", opened, reply)
           cause == IF IsException(opened) THEN opened
                    ELSE IF IsException(reply) THEN reply ELSE None
       IN  /\ client' = c.self
           /\ calls' = Append(calls,
                  [fn |-> "analyze_crop_image", args |-> <<q, "zh">>,
                   failed |-> cause # None, cause |-> cause,
                   outcome |-> c.outcome])
    /\ UNCHANGED <<parseVars, startVars, guiVars, voiceVars>>

NextClient ==
    \/ \E resp \in ClientTexts, q \in Queries, lang \in Languages :
          CallParse(resp, q, lang)
    \/ \E q \in Queries, opened \in OpenOutcomes, reply \in ReplyOutcomes :
          CallAnalyze(q, opened, reply)

SpecClient == InitClient /\ [][NextClient]_vars

---------------------------------------------------------------------------
(* Program start: config import, the launcher's check, the window's __init__ *)

\* GEMINI_API_KEY in the process environment, and in the .env file (the
\* launcher's template writes your_gemini_api_key_here)
Environs ==
    {Unset, SetTo(""), SetTo("YOUR_GEMINI_API_KEY_HERE"), SetTo("a-real-key")}
DotenvStates ==
    {[installed |-> i, file |-> f] :
        i \in BOOLEAN,
        f \in {Unset, SetTo("your_gemini_api_key_here"), SetTo("a-real-key")}}

InitStart ==
    /\ response = <<>>
    /\ query = ""
    /\ language = ""
    /\ pc = "ready"
    /\ result = NoResult
    /\ client = NewClient
    /\ calls = <<>>
    /\ environ \in Environs
    /\ dotenv \in DotenvStates
    /\ config_key = ""
    /\ issues = <<>>
    /\ boot = "start"
    /\ dev = NoDevices
    /\ GuiIdle
    /\ VoiceIdle

\* import config: load_dotenv() if the package is there, then the class body
ImportConfig ==
    /\ boot = "start"
    /\ environ' = LoadDotenv(environ, dotenv)
    /\ config_key' = Getenv(environ', DefaultApiKey)
    /\ boot' = "imported"
    /\ UNCHANGED <<dotenv, issues, dev, parseVars, clientVars, voiceVars, guiVars>>

\* run_osiris_ai_mobile.check_config(): issues = config.validate_config()
CheckConfig ==
    /\ boot = "imported"
    /\ issues' = ValidateConfig(config_key)
    /\ boot' = "checked"
    /\ UNCHANGED <<environ, dotenv, config_key, dev, parseVars, clientVars, voiceVars, guiVars>>

\* OsirisAIMobile.__init__ (after the launcher's check, or without it from
\* launch_app.py): validate_config, then init_ai_services, init_voice_system
\* and init_camera, each of which may fail and leave its attribute None
Construct(ai, voice, cam) ==
    /\ boot \in {"imported", "checked"}
    /\ issues' = ValidateConfig(config_key)
    /\ dev' = [gemini_model |-> ai, recognizer |-> voice, camera |-> cam]
    /\ boot' = "running"
    /\ UNCHANGED <<environ, dotenv, config_key, parseVars, clientVars, voiceVars, guiVars>>

NextStart ==
    \/ ImportConfig
    \/ CheckConfig
    \/ \E ai \in BOOLEAN, voice \in BOOLEAN, cam \in BOOLEAN :
          Construct(ai, voice, cam)

SpecStart == InitStart /\ [][NextStart]_vars

---------------------------------------------------------------------------
(* OsirisAIMobile: the window's handlers and its background threads *)

MaxThreads == 2       \* background threads started, of either kind

\* The query analyze_crop submits for a blank voice text box
\* ("Analyse the health problems of this crop image and give advice.")
DefaultQuery ==
    <<20998, 26512, 36889, 24373, 20316, 29289, 22294, 29255, 30340, 20581,
      24247, 21839, 38988, 20006, 25552, 20379, 24314, 35696, 12290>>

\* The text record() emits when nothing was recognised
\* ("Why is my cabbage wilting?")
FallbackVoiceText ==
    <<25105, 30340, 30333, 33756, 28858, 20160, 40636, 26371, 26543, 33806,
      65311>>

\* What the recognition service returns: a Cantonese and an English text
CantoneseText == <<33865, 40644>>
EnglishText == <<108, 101, 97, 102>>

\* What the user types into the voice text box: a question with blanks
\* around it (the box is blank before)
TypedTexts == {<<SP, 113, 63, SP>>}

\* The text of a model reply
ReplyText == <<DASH>> \o BodyWater

\* Image files: the one capture_image writes, its path when cv2.imwrite
\* wrote nothing, and the one the file dialog returns
CapturedPath == "crop_image.jpg"
UnwrittenPath == "crop_image_unwritten.jpg"
LoadedPath == "leaf.png"

\* os.path.exists / Image.open of a path
Exists(path) == path \in {CapturedPath, LoadedPath}

\* The devices and services __init__ may have obtained
Devices == [gemini_model : BOOLEAN, recognizer : BOOLEAN, camera : BOOLEAN]

\* Every init_* succeeded
AllDevices == [gemini_model |-> TRUE, recognizer |-> TRUE, camera |-> TRUE]

InitGui ==
    /\ response = <<>>
    /\ query = ""
    /\ language = ""
    /\ pc = "ready"
    /\ result = NoResult
    /\ client = NewClient
    /\ calls = <<>>
    /\ environ = Unset
    /\ dotenv = [installed |-> FALSE, file |-> Unset]
    /\ config_key = DefaultApiKey
    /\ issues = <<>>
    /\ boot = "running"
    /\ dev \in Devices
    /\ GuiIdle
    /\ VoiceIdle

\* Mutant: a failed read warns and still enables the analyze button
CapturedEnabling(w, camera, frame) ==
    IF ~camera \/ frame = "closed"
    THEN [w EXCEPT !.dialog = "warning: camera",
                   !.written = None]
    ELSE IF frame = "none"
    THEN [w EXCEPT !.analyze_enabled = TRUE, !.dialog = "warning: capture",
                                             !.written = None]
    ELSE [w EXCEPT !.current_image =
                       IF frame = "written" THEN CapturedPath ELSE UnwrittenPath,
                   !.analyze_enabled = TRUE,
                   !.dialog = "none",
                   !.written = None]

\* The window after capture_image(): frame tells what camera.read() gave
\* ("closed" when the camera is no longer opened, "none" for no frame)
Captured(w, camera, frame) ==
    IF ~camera \/ frame = "closed"
    THEN [w EXCEPT !.dialog = "warning: camera",
                   !.written = None]
    ELSE IF frame = "none"
    THEN [w EXCEPT !.dialog = "warning: capture",
                   !.written = None]
    ELSE [w EXCEPT !.current_image =
                       IF frame = "written" THEN CapturedPath ELSE UnwrittenPath,
                   !.analyze_enabled = TRUE,
                   !.dialog = "none",
                   !.written = None]

\* The window after a start-up that obtained every device
InitGuiReady == InitGui /\ dev = AllDevices

\* capture_image(): a click on the capture button
CaptureImage(frame) ==
    /\ boot = "running"
    /\ ui' = Captured(ui, dev.camera, frame)
    /\ UNCHANGED <<analyses, recordings, events, parseVars, clientVars, voiceVars,
                   startVars>>

\* load_image(): the file dialog gives a path that opens, a path that does
\* not open, or nothing
LoadImage(choice) ==
    /\ boot = "running"
    /\ ui' = IF choice = "cancel" THEN [ui EXCEPT !.dialog = "none",
                                                  !.written = None]
             ELSE IF choice = "unreadable"
             THEN [ui EXCEPT !.dialog = "warning: load",
                             !.written = None]
             ELSE [ui EXCEPT !.current_image = LoadedPath,
                             !.analyze_enabled = TRUE,
                             !.dialog = "none",
                             !.written = None]
    /\ UNCHANGED <<analyses, recordings, events, parseVars, clientVars, voiceVars,
                   startVars>>

\* The user edits the voice text box
EditVoiceText(text) ==
    /\ boot = "running"
    /\ ui' = [ui EXCEPT !.voice_text = text, !.dialog = "none",
                                             !.written = None]
    /\ UNCHANGED <<analyses, recordings, events, parseVars, clientVars, voiceVars,
                   startVars>>

\* reset_record_button()
ResetRecordButton(w) ==
    [w EXCEPT !.is_recording = FALSE, !.record_text = "record"]

\* stop_recording(): only the flag and the button; the thread is not told
StopRecording(w) == ResetRecordButton([w EXCEPT !.is_recording = FALSE])

\* Mutant: stop_recording() ends the threads still listening
StoppedThreadsCancelled(recs) ==
    [id \in 1..Len(recs) |->
        IF recs[id].stage = "running" THEN [stage |-> "handled"] ELSE recs[id]]

\* The recording threads after stop_recording(): it has no handle on them
StoppedThreads(recs) == recs

\* start_recording() without its thread
StartRecording(w) == [w EXCEPT !.is_recording = TRUE, !.record_text = "stop"]

\* toggle_recording(): a click on the record button
ToggleRecording ==
    /\ boot = "running"
    /\ dev.recognizer /\ ~ui.is_recording => Len(analyses) + Len(recordings) < MaxThreads
    /\ IF ~dev.recognizer
       THEN /\ ui' = [ui EXCEPT !.dialog = "warning: voice",
                                !.written = None]
            /\ UNCHANGED recordings
       ELSE IF ui.is_recording
       THEN /\ ui' = [StopRecording(ui) EXCEPT !.dialog = "none",
                                               !.written = None]
            /\ recordings' = StoppedThreads(recordings)
       ELSE /\ ui' = [StartRecording(ui) EXCEPT !.dialog = "none",
                                                !.written = None]
            /\ recordings' = Append(recordings, [stage |-> "running"])
    /\ UNCHANGED <<analyses, events, parseVars, clientVars, voiceVars, startVars>>

\* Mutant: any failure of the Cantonese recognition leads to the English one
EnglishTriedOnAnyError(capture, zh) == capture = "audio" /\ zh # "text"

\* Whether record() calls the English recognition: only in the handler of
\* the Cantonese call's UnknownValueError. capture is the outcome of
\* listening ("audio", or "timeout" for any exception), zh that of the
\* Cantonese call ("text", "unknown" or "error")
EnglishTried(capture, zh) == capture = "audio" /\ zh = "unknown"

\* What record() emits; en is the outcome of the English call
Recognized(capture, zh, en) ==
    IF capture = "audio" /\ zh = "text" THEN CantoneseText
    ELSE IF EnglishTried(capture, zh) /\ en = "text" THEN EnglishText
    ELSE FallbackVoiceText

\* The thread record() of recording id, from listening to its finally
\* clause; timer tells whether the single-shot timer started from this
\* thread ever fires in the primary thread
Record(id, capture, zh, en, timer) ==
    /\ recordings[id].stage = "running"
    /\ recordings' =
         [recordings EXCEPT ![id] =
             [stage |-> "emitted", capture |-> capture, zh |-> zh,
              en |-> IF EnglishTried(capture, zh) THEN en ELSE "not tried"]]
    /\ events' = events
         \o <<[signal |-> "voice_recognized", task |-> id,
               arg |-> Recognized(capture, zh, en)]>>
         \o IF timer
            THEN <<[signal |-> "reset_record_button", task |-> id,
                    arg |-> <<>>]>>
            ELSE <<>>
    /\ UNCHANGED <<ui, analyses, parseVars, clientVars, voiceVars, startVars>>

\* The query analyze_crop builds from the voice text box
SubmittedQuery(text) == IF Strip(text) = <<>> THEN DefaultQuery ELSE Strip(text)

\* Mutant: analyze_crop does not check that the image file exists
RefusedUnchecked(w, d) ==
    IF w.current_image = "" THEN "warning: no image"
    ELSE IF ~d.gemini_model THEN "warning: AI"
    ELSE "none"

\* The three checks of analyze_crop: the warning it shows, or "none"
Refused(w, d) ==
    IF w.current_image = "" THEN "warning: no image"
    ELSE IF ~d.gemini_model THEN "warning: AI"
    ELSE IF ~Exists(w.current_image) THEN "warning: file"
    ELSE "none"

\* analyze_crop(): a click on the analyze button (an enabled one); the three
\* checks, then the button is disabled and the thread started
AnalyzeCrop ==
    /\ boot = "running"
    /\ ui.analyze_enabled
    /\ LET refused == Refused(ui, dev)
       IN  IF refused # "none"
           THEN /\ ui' = [ui EXCEPT !.dialog = refused,
                                    !.written = None]
                /\ UNCHANGED analyses
           ELSE /\ Len(analyses) + Len(recordings) < MaxThreads
                /\ ui' = [ui EXCEPT !.analyze_enabled = FALSE,
                                    !.analyze_text = "analyzing",
                                    !.dialog = "none",
                                    !.written = None]
                /\ analyses' = Append(analyses,
                      [stage |-> "running",
                       query |-> SubmittedQuery(ui.voice_text),
                       requested |-> ui.current_image,
                       sent |-> "",
                       record |-> None])
    /\ UNCHANGED <<recordings, events, parseVars, clientVars, voiceVars, startVars>>

\* Mutant: a reply without text is dropped without a notification
AnalysisSignalSilent(opened, reply) ==
    IF ~opened THEN <<"analysis_failed", "no such file">>
    ELSE IF reply = "text" THEN <<"analysis_completed", ReplyText>>
    ELSE IF reply = "empty" THEN <<>>
    ELSE <<"analysis_failed", "service error">>

\* What analyze() emits: the image opened or not, and the model's reply a
\* text, an empty text or an exception
AnalysisSignal(opened, reply) ==
    IF ~opened THEN <<"analysis_failed", "no such file">>
    ELSE IF reply = "text" THEN <<"analysis_completed", ReplyText>>
    ELSE IF reply = "empty" THEN <<"analysis_failed", "no result">>
    ELSE <<"analysis_failed", "service error">>

\* The thread analyze() of analysis id: it opens self.current_image as it is
\* when the thread runs, sends the prompt and the image, and emits
Analyze(id, reply) ==
    /\ analyses[id].stage = "running"
    /\ LET opened == Exists(ui.current_image)
           sig == AnalysisSignal(opened, reply)
       IN  /\ analyses' = [analyses EXCEPT
                  ![id].stage = "emitted",
                  ![id].sent = IF opened THEN ui.current_image ELSE ""]
           /\ events' = events \o
                  IF sig = <<>> THEN <<>>
                  ELSE <<[signal |-> sig[1], task |-> id, arg |-> sig[2]]>>
    /\ UNCHANGED <<ui, recordings, parseVars, clientVars, voiceVars, startVars>>

\* on_voice_recognized(text), as the primary thread takes it from its queue
OnVoiceRecognized ==
    /\ events # <<>>
    /\ Head(events).signal = "voice_recognized"
    /\ ui' = [ResetRecordButton([ui EXCEPT !.voice_text = Head(events).arg])
                  EXCEPT !.dialog = "none",
                         !.written = None]
    /\ recordings' = [recordings EXCEPT ![Head(events).task] =
                          [stage |-> "handled"]]
    /\ events' = Tail(events)
    /\ UNCHANGED <<analyses, parseVars, clientVars, voiceVars, startVars>>

\* reset_record_button(), as the single-shot timer of a recording thread
\* calls it
OnRecordTimer ==
    /\ events # <<>>
    /\ Head(events).signal = "reset_record_button"
    /\ ui' = [ResetRecordButton(ui) EXCEPT !.dialog = "none",
                                           !.written = None]
    /\ events' = Tail(events)
    /\ UNCHANGED <<analyses, recordings, parseVars, clientVars, voiceVars, startVars>>

\* The record on_analysis_completed stores
AnalysisRecord(w, text) ==
    [query |-> Strip(w.voice_text), response |-> text,
     image_path |-> w.current_image]

\* on_analysis_completed(response_text)
OnAnalysisCompleted ==
    /\ events # <<>>
    /\ Head(events).signal = "analysis_completed"
    /\ ui' = [ui EXCEPT
                 !.current_analysis = AnalysisRecord(ui, Head(events).arg),
                 !.save_enabled = TRUE,
                 !.speak_enabled = TRUE,
                 !.analyze_enabled = TRUE,
                 !.analyze_text = "analyze crop",
                 !.dialog = "none",
                 !.written = None]
    /\ analyses' = [analyses EXCEPT
           ![Head(events).task].stage = "completed",
           ![Head(events).task].record = AnalysisRecord(ui, Head(events).arg)]
    /\ events' = Tail(events)
    /\ UNCHANGED <<recordings, parseVars, clientVars, voiceVars, startVars>>

\* Mutant: a failed analysis also discards the record of the last success
AnalysisFailedClearing(w) ==
    [w EXCEPT !.current_analysis = None,
              !.analyze_enabled = TRUE,
              !.analyze_text = "analyze crop",
              !.dialog = "none",
              !.written = None]

\* The window after on_analysis_failed(error_msg)
AnalysisFailed(w) ==
    [w EXCEPT !.analyze_enabled = TRUE,
              !.analyze_text = "analyze crop",
              !.dialog = "none",
              !.written = None]

\* on_analysis_failed(error_msg), as the primary thread takes it from its
\* queue
OnAnalysisFailed ==
    /\ events # <<>>
    /\ Head(events).signal = "analysis_failed"
    /\ ui' = AnalysisFailed(ui)
    /\ analyses' = [analyses EXCEPT ![Head(events).task] = [stage |-> "failed"]]
    /\ events' = Tail(events)
    /\ UNCHANGED <<recordings, parseVars, clientVars, voiceVars, startVars>>

\* save_analysis(): a click on the save button; written tells whether the
\* file could be written
SaveAnalysis(written) ==
    /\ boot = "running"
    /\ ui.save_enabled
    /\ ui' = [ui EXCEPT
                 !.dialog = IF ui.current_analysis = None THEN "none"
                            ELSE IF written THEN "information: saved"
                            ELSE "warning: save",
                 !.written = IF ui.current_analysis # None /\ written
                             THEN ui.current_analysis ELSE None]
    /\ UNCHANGED <<analyses, recordings, events, parseVars, clientVars, voiceVars,
                   startVars>>

\* speak_analysis(): a click on the speak button; its thread only speaks
SpeakAnalysis ==
    /\ boot = "running"
    /\ ui.speak_enabled
    /\ ui' = [ui EXCEPT !.dialog = "none",
                        !.written = None]
    /\ UNCHANGED <<analyses, recordings, events, parseVars, clientVars, voiceVars,
                   startVars>>

\* The user's actions
UserAction ==
    \/ \E frame \in {"closed", "none", "written", "unwritten"} :
          CaptureImage(frame)
    \/ \E choice \in {"cancel", "unreadable", "file"} : LoadImage(choice)
    \/ \E text \in TypedTexts : EditVoiceText(text)
    \/ ToggleRecording
    \/ AnalyzeCrop
    \/ \E written \in BOOLEAN : SaveAnalysis(written)
    \/ SpeakAnalysis

\* A step of a background thread
ThreadStep ==
    \/ \E id \in 1..Len(recordings), capture \in {"audio", "timeout"},
          zh \in {"text", "unknown", "error"}, en \in {"text", "unknown"},
          timer \in BOOLEAN : Record(id, capture, zh, en, timer)
    \/ \E id \in 1..Len(analyses), reply \in {"text", "empty", "raise"} :
          Analyze(id, reply)

\* The primary thread handles the notification at the head of its queue
HandleEvent ==
    \/ OnVoiceRecognized
    \/ OnRecordTimer
    \/ OnAnalysisCompleted
    \/ OnAnalysisFailed

NextGui == UserAction \/ ThreadStep \/ HandleEvent

SpecGui == InitGui /\ [][NextGui]_vars

\* The window whose start-up obtained every device, under fairness: the
\* threads run and the event loop of the primary thread runs; the user need
\* not do anything
FairSpecGui ==
    /\ InitGuiReady
    /\ [][NextGui]_vars
    /\ WF_vars(ThreadStep)
    /\ WF_vars(HandleEvent)

---------------------------------------------------------------------------
(* Voice_System.py: VoiceSystem.start_recording and stop_recording *)

WaitTicks == 2        \* sleeps of stop_recording's wait loop before it gives up

\* The text stop_recording returns when it has nothing recognised (the same
\* question as the window's fallback)
ExampleText ==
    <<25105, 30340, 30333, 33756, 28858, 20160, 40636, 26371, 26543, 33806,
      65311>>

\* The record() threads still listening
Listening ==
    {id \in 1..Len(record_threads) : record_threads[id] = "listening"}

InitVoice ==
    /\ response = <<>>
    /\ query = ""
    /\ language = ""
    /\ pc = "ready"
    /\ result = NoResult
    /\ client = NewClient
    /\ calls = <<>>
    /\ StartIdle
    /\ GuiIdle
    /\ VoiceIdle

\* The call the caller made last
LastCall(c) == IF "fn" \in DOMAIN c.returned THEN c.returned.fn ELSE "none"

\* start_recording(): refused while is_recording is up; otherwise the flag
\* goes up, audio_data is cleared and a record() thread starts. The value
\* returned is kept, with whether a thread was listening at the call and
\* which call came before
VsStartRecording ==
    /\ caller.at = "idle"
    /\ IF voice_system.is_recording
       THEN /\ caller' = [caller EXCEPT !.returned =
                   [fn |-> "start_recording",
                    value |-> <<FALSE, "already recording">>,
                    listening |-> Listening # {},
                    after |-> LastCall(caller)]]
            /\ UNCHANGED <<voice_system, record_threads>>
       ELSE /\ Len(record_threads) < MaxThreads
            /\ voice_system' = [is_recording |-> TRUE, audio_data |-> NoAudio]
            /\ record_threads' = Append(record_threads, "listening")
            /\ caller' = [caller EXCEPT !.returned =
                   [fn |-> "start_recording",
                    value |-> <<TRUE, "recording started">>,
                    listening |-> Listening # {},
                    after |-> LastCall(caller)]]
    /\ UNCHANGED <<parseVars, clientVars, startVars, guiVars>>

\* The thread record() of recording id: listen gives audio, which it stores,
\* or raises WaitTimeoutError or another exception, which lower the flag
VsRecord(id, outcome) ==
    /\ record_threads[id] = "listening"
    /\ record_threads' = [record_threads EXCEPT ![id] = outcome]
    /\ voice_system' =
         IF outcome = "captured"
         THEN [voice_system EXCEPT !.audio_data = "audio"]
         ELSE [voice_system EXCEPT !.is_recording = FALSE]
    /\ UNCHANGED <<caller, parseVars, clientVars, startVars, guiVars>>

\* stop_recording() is called: timeout = 10
VsStopEnter ==
    /\ caller.at = "idle"
    /\ caller' = [at |-> "stop_recording", timeout |-> WaitTicks,
                  waited_idle |-> FALSE, returned |-> None]
    /\ UNCHANGED <<voice_system, record_threads, parseVars, clientVars,
                   startVars, guiVars>>

\* One turn of the wait loop: while self.is_recording and timeout > 0, sleep.
\* waited_idle notes a sleep taken with no thread listening any more
VsStopSleep ==
    /\ caller.at = "stop_recording"
    /\ voice_system.is_recording /\ caller.timeout > 0
    /\ caller' = [caller EXCEPT !.timeout = @ - 1,
                                !.waited_idle = @ \/ Listening = {}]
    /\ UNCHANGED <<voice_system, record_threads, parseVars, clientVars,
                   startVars, guiVars>>

\* What stop_recording returns after its loop: the example text without
\* audio or when recognition fails, the recognised text otherwise
StopValue(audio, recognition) ==
    IF audio = NoAudio THEN <<ExampleText, "example text">>
    ELSE IF recognition = "text" THEN <<CantoneseText, "recognised">>
    ELSE <<ExampleText, "example text">>

\* stop_recording() leaves its loop and returns; it assigns no attribute
VsStopReturn(recognition) ==
    /\ caller.at = "stop_recording"
    /\ ~(voice_system.is_recording /\ caller.timeout > 0)
    /\ caller' = [at |-> "idle", timeout |-> caller.timeout,
                  waited_idle |-> caller.waited_idle,
                  returned |->
                     [fn |-> "stop_recording",
                      value |-> StopValue(voice_system.audio_data, recognition),
                      waited_idle |-> caller.waited_idle]]
    /\ UNCHANGED <<voice_system, record_threads, parseVars, clientVars,
                   startVars, guiVars>>

NextVoice ==
    \/ VsStartRecording
    \/ \E id \in 1..Len(record_threads),
          outcome \in {"captured", "timeout", "error"} : VsRecord(id, outcome)
    \/ VsStopEnter
    \/ VsStopSleep
    \/ \E recognition \in {"text", "unknown", "request error", "error"} :
          VsStopReturn(recognition)

SpecVoice == InitVoice /\ [][NextVoice]_vars

---------------------------------------------------------------------------
(* What the claims speak of, stated apart from the code's own tables *)

ClaimedHealthyWords == {<<20581, 24247>>, <<27491, 24120>>, <<33391, 22909>>}
ClaimedProblemWords == {<<30149>>, <<34802, 23475>>, <<21839, 38988>>}
ClaimedHealthyDiagnosis ==
    <<20316, 29289, 20581, 24247, 29376, 27841, 33391, 22909>>
ClaimedProblemDiagnosis ==
    <<30332, 29694, 21839, 38988, 32, 45, 32, 35531, 26597, 30475, 24314, 35696>>
ClaimedDefaultDiagnosis == <<20998, 26512, 23436, 25104>>
ClaimedFallback ==
    << <<23450, 26399, 30435, 23519, 26893, 29289, 20581, 24247, 29376, 27841>>,
       <<30906, 20445, 36969, 30070, 30340, 28550, 27700, 26178, 38291, 34920>>,
       <<27298, 26597, 23475, 34802, 27963, 21205>> >>

HasHealthyWord(s) == \E w \in ClaimedHealthyWords : Contains(w, s)
HasProblemWord(s) == \E w \in ClaimedProblemWords : Contains(w, s)

\* The trimmed lines of a text, and the code's candidates among them
TrimmedLines(resp) == LET ls == Split(resp) IN [i \in 1..Len(ls) |-> Strip(ls[i])]
CandidateIdx(tl) == {i \in 1..Len(tl) : IsCandidate(tl[i])}

\* The candidates whose text after stripping has at least 6 characters
AcceptedIdx(tl) == {i \in CandidateIdx(tl) : Len(CleanRec(tl[i])) >= 6}

\* The position of line i among the lines of the set idx, in text order
Rank(idx, i) == Cardinality({j \in idx : j <= i})

---------------------------------------------------------------------------
(* Claims *)

\* C1: a response containing a healthy keyword gets the healthy diagnosis,
\* also when it contains a problem keyword: healthy keywords take precedence.
C1_HealthyPrecedence ==
    (pc = "returned" /\ HasHealthyWord(response))
        => result.diagnosis = ClaimedHealthyDiagnosis

C1_Witness ==
    /\ pc = "returned"
    /\ HasHealthyWord(response)
    /\ HasProblemWord(response)
    /\ result.diagnosis = ClaimedHealthyDiagnosis

\* C2: a response with a problem keyword and no healthy keyword gets the
\* problem-detected diagnosis.
C2_ProblemDiagnosis ==
    (pc = "returned" /\ HasProblemWord(response) /\ ~HasHealthyWord(response))
        => result.diagnosis = ClaimedProblemDiagnosis

C2_Witness ==
    /\ pc = "returned"
    /\ Contains(<<21839, 38988>>, response)
    /\ ~Contains(<<30149>>, response)
    /\ ~HasHealthyWord(response)
    /\ result.diagnosis = ClaimedProblemDiagnosis

\* C3: a response with no keyword of either set (the empty string included)
\* gets the placeholder diagnosis; the diagnosis is never empty and is always
\* one of the three fixed strings.
C3_DefaultDiagnosis ==
    pc = "returned" =>
        /\ (~HasHealthyWord(response) /\ ~HasProblemWord(response))
              => result.diagnosis = ClaimedDefaultDiagnosis
        /\ result.diagnosis # <<>>
        /\ result.diagnosis \in
              {ClaimedHealthyDiagnosis, ClaimedProblemDiagnosis,
               ClaimedDefaultDiagnosis}

C3_Witness ==
    /\ pc = "returned"
    /\ response = <<>>
    /\ result.diagnosis = ClaimedDefaultDiagnosis

\* C4: recommendations has at most 5 elements, and when candidates are
\* extracted they are the first 5 (or fewer) accepted candidate lines, in the
\* order of the lines of the text.
C4_FirstFiveInOrder ==
    pc = "returned" =>
        LET recs == result.recommendations
            tl == TrimmedLines(response)
            acc == AcceptedIdx(tl)
            n == Cardinality(acc)
        IN  /\ Len(recs) <= 5
            /\ acc # {} =>
                  /\ Len(recs) = IF n < 5 THEN n ELSE 5
                  /\ \A i \in acc :
                        LET k == Rank(acc, i)
                        IN  k <= 5 => recs[k] = CleanRec(tl[i])

C4_Witness ==
    /\ pc = "returned"
    /\ Len(result.recommendations) = 5
    /\ LET tl == TrimmedLines(response)
           acc == AcceptedIdx(tl)
       IN  /\ Cardinality(acc) > 5
           /\ \E i \in acc :
                 /\ Rank(acc, i) = 6
                 /\ CleanRec(tl[i]) # result.recommendations[1]
                 /\ CleanRec(tl[i]) # result.recommendations[5]

\* C5: when no candidate is accepted (empty text, prose without list markers,
\* marker lines too short after stripping) recommendations is the fixed
\* 3-item fallback list, whatever the diagnosis; it is never empty.
C5_Fallback ==
    pc = "returned" =>
        /\ AcceptedIdx(TrimmedLines(response)) = {}
              => result.recommendations = ClaimedFallback
        /\ result.recommendations # <<>>

C5_Witness ==
    /\ pc = "returned"
    /\ result.diagnosis = ClaimedHealthyDiagnosis
    /\ result.recommendations = ClaimedFallback
    /\ LET tl == TrimmedLines(response)
       IN  CandidateIdx(tl) # {} /\ AcceptedIdx(tl) = {}

\* C6 as stated: for the three-line scenario text the diagnosis is healthy
\* and recommendations holds the three entries, in order.
C6_ScenarioThreeEntries ==
    (pc = "returned" /\ response = ScenarioText) =>
        /\ result.diagnosis = ClaimedHealthyDiagnosis
        /\ result.recommendations =
              << <<20581, 24247, 29376, 27841, 33391, 22909>>,
                 <<23450, 26399, 28748, 28297>>,
                 <<28961, 38656, 29992, 34277>> >>

\* C6 as amended: for the three-line scenario text the diagnosis is healthy
\* and recommendations holds only the first line's text; the two other lines
\* have 4 characters after stripping and are discarded.
C6_ScenarioOneEntry ==
    (pc = "returned" /\ response = ScenarioText) =>
        /\ result.diagnosis = ClaimedHealthyDiagnosis
        /\ result.recommendations =
              << <<20581, 24247, 29376, 27841, 33391, 22909>> >>

C6_Witness ==
    /\ pc = "returned"
    /\ response = ScenarioText
    /\ Len(result.recommendations) = 1

\* A numbered-list marker as the claim has it: a number, then a period
IsDigit(c) == c \in 48..57
StartsWithNumberDot(line) ==
    \E n \in 1..(Len(line) - 1) :
        /\ \A j \in 1..n : IsDigit(line[j])
        /\ line[n + 1] = DOT

ClaimedCandidate(line) ==
    \/ StartsWithNumberDot(line)
    \/ StartsWith(line, <<DASH>>)
    \/ StartsWith(line, <<BULLET>>)

\* C7 as stated: a trimmed line is a candidate iff it starts with a number
\* followed by a period (any number), a dash or a bullet; so the lines
\* extracted are the first 5 such lines that are long enough, a line numbered
\* 4. or higher like the lines numbered 1. to 3.
C7_AnyNumberIsMarker ==
    pc = "returned" =>
        LET recs == result.recommendations
            tl == TrimmedLines(response)
            claimed == {i \in 1..Len(tl) :
                           ClaimedCandidate(tl[i]) /\ Len(CleanRec(tl[i])) >= 6}
            n == Cardinality(claimed)
        IN  /\ claimed = {} => recs = ClaimedFallback
            /\ claimed # {} =>
                  /\ Len(recs) = IF n < 5 THEN n ELSE 5
                  /\ \A i \in claimed :
                        LET k == Rank(claimed, i)
                        IN  k <= 5 => recs[k] = CleanRec(tl[i])

\* What the claim has extracted from a candidate line: the marker the line
\* starts with removed, then the punctuation and whitespace that follow it,
\* the rest kept (trailing whitespace aside)
MarkerLen(line) ==
    IF StartsWith(line, <<DASH>>) \/ StartsWith(line, <<BULLET>>) THEN 1
    ELSE 1 + Min({n \in 1..Len(line) : line[n] = DOT})

ClaimedClean(line) ==
    LET rest == SubSeq(line, MarkerLen(line) + 1, Len(line))
        keep == {i \in 1..Len(rest) :
                    rest[i] \notin {DOT, DASH, BULLET} /\ ~IsSpace(rest[i])}
    IN  IF keep = {} THEN <<>> ELSE Strip(SubSeq(rest, Min(keep), Len(rest)))

\* C8 as stated: each extracted recommendation is its trimmed line with only
\* the leading marker and the punctuation/whitespace after it removed; text
\* that begins with a digit keeps that digit.
C8_OnlyMarkerRemoved ==
    pc = "returned" =>
        LET recs == result.recommendations
            tl == TrimmedLines(response)
            acc == AcceptedIdx(tl)
        IN  \A i \in acc :
                LET k == Rank(acc, i)
                IN  k <= 5 => recs[k] = ClaimedClean(tl[i])

\* C9: a candidate is kept iff its text after stripping has at least 6
\* characters; every recommendation extracted from the text has length >= 6.
C9_KeptIffSixChars ==
    pc = "returned" =>
        LET recs == result.recommendations
            tl == TrimmedLines(response)
            long == {i \in CandidateIdx(tl) : Len(CleanRec(tl[i])) >= 6}
            n == Cardinality(long)
        IN  IF long = {}
            THEN recs = ClaimedFallback
            ELSE /\ Len(recs) = IF n < 5 THEN n ELSE 5
                 /\ \A k \in 1..Len(recs) :
                       /\ Len(recs[k]) >= 6
                       /\ \E i \in long : recs[k] = CleanRec(tl[i])

C9_Witness ==
    /\ pc = "returned"
    /\ Len(result.recommendations) = 1
    /\ LET tl == TrimmedLines(response)
       IN  /\ \E i \in CandidateIdx(tl) : Len(CleanRec(tl[i])) = 5
           /\ \E i \in CandidateIdx(tl) :
                 /\ Len(CleanRec(tl[i])) = 6
                 /\ result.recommendations[1] = CleanRec(tl[i])

\* A str: a finite sequence of code points
IsStr(s) == \A i \in 1..Len(s) : s[i] \in Nat

\* C10: for every raw response (the empty string included), query and
\* language tag the call does not raise: it returns a record with the fields
\* diagnosis, confidence, recommendations, raw_response, query and language.
C10_NeverRaises ==
    /\ pc # "raised"
    /\ pc = "ready" =>
          \A q \in Queries, lang \in Languages :
              ~IsException(ParseResponse(response, q, lang))
    /\ pc = "returned" =>
          /\ {"diagnosis", "confidence", "recommendations", "raw_response",
              "query", "language"} \subseteq DOMAIN result
          /\ IsStr(result.diagnosis)
          /\ result.recommendations # <<>>
          /\ \A k \in 1..Len(result.recommendations) :
                IsStr(result.recommendations[k])

C10_Witness ==
    /\ pc = "returned"
    /\ response = <<>>
    /\ query = ""
    /\ language = "en"
    /\ DOMAIN result = RecordFields


\* C12: in every returned record raw_response is the input text unmodified,
\* query is the input query, confidence is 0.85 and language is 'zh' whatever
\* language argument was passed.
C12_PassThroughFields ==
    pc = "returned" =>
        /\ result.raw_response = response
        /\ result.query = query
        /\ result.confidence = "0.85"
        /\ result.language = "zh"

C12_Witness ==
    /\ pc = "returned"
    /\ language = "en"
    /\ result.language = "zh"
    /\ query # ""
    /\ result.query = query
    /\ Len(response) > 0
    /\ result.raw_response = response


\* C11: _parse_response is deterministic and keeps no state between calls:
\* two calls with the same arguments return the same record whatever calls
\* were made before or between them, the instance is as constructed, and the
\* record of a call is not changed by a later call.
C11_SameArgsSameRecord ==
    /\ client = [model |-> "gemini-1.5-pro-vision-latest"]
    /\ \A i, j \in 1..Len(calls) :
          (/\ calls[i].fn = "_parse_response"
           /\ calls[j].fn = "_parse_response"
           /\ calls[i].args = calls[j].args)
              => calls[i].outcome = calls[j].outcome

C11_RecordsKept ==
    [][\A i \in 1..Len(calls) : calls'[i] = calls[i]]_vars

C11_Deterministic == []C11_SameArgsSameRecord /\ C11_RecordsKept

C11_Witness ==
    /\ Len(calls) = 3
    /\ calls[1].fn = "_parse_response"
    /\ calls[3].fn = "_parse_response"
    /\ calls[1].args = calls[3].args
    /\ calls[2].args # calls[1].args
    /\ Len(calls[1].args[1]) > 0
    /\ calls[1].outcome.recommendations = <<BodyWater>>
    /\ calls[3].outcome = calls[1].outcome

\* C13: analyze_crop_image never raises.  When image loading, the model call
\* and parsing succeed it returns (record, "analysis succeeded") with a
\* record; when one of them fails it returns (None, message), the message
\* non-empty and carrying the failure text.  The first component is None if
\* and only if the call failed.
C13_AnalyzeNeverRaises ==
    \A i \in 1..Len(calls) :
        calls[i].fn = "analyze_crop_image" =>
            LET c == calls[i]
            IN  /\ ~IsException(c.outcome)
                /\ (c.outcome.value[1] = [none |-> TRUE]) <=> c.failed
                /\ ~c.failed =>
                      /\ c.outcome.value[2] = "analysis succeeded"
                      /\ {"diagnosis", "recommendations", "raw_response"}
                            \subseteq DOMAIN c.outcome.value[1]
                /\ c.failed =>
                      /\ c.outcome.value[2] # ""
                      /\ c.outcome.value[2] =
                            "Gemini analysis failed: " \o c.cause.text

C13_Witness ==
    /\ Len(calls) = 3
    /\ \E i \in 1..3 :
          /\ calls[i].fn = "analyze_crop_image"
          /\ ~calls[i].failed
          /\ calls[i].outcome.value[1].raw_response = <<>>
    /\ \E i \in 1..3 :
          /\ calls[i].fn = "analyze_crop_image"
          /\ calls[i].failed
          /\ calls[i].cause.exception = "FileNotFoundError"
          /\ calls[i].outcome.value[1] = [none |-> TRUE]
    /\ \E i \in 1..3 :
          /\ calls[i].fn = "analyze_crop_image"
          /\ calls[i].failed
          /\ calls[i].cause.text = ""
          /\ calls[i].outcome.value[2] # ""


\* C18 as stated: validate_config returns a non-empty list of issues whenever
\* the Gemini API key is unset (GEMINI_API_KEY absent from the environment or
\* empty), and an empty list when a key is set.
C18_IssuesIffKeyUnset ==
    boot \in {"checked", "running"} =>
        LET unset == ~environ.set \/ environ.value = ""
        IN  (issues # <<>>) <=> unset


---------------------------------------------------------------------------
(* The window's threads and notifications *)

\* The analysis threads started so far, and those still to be handled
Started(id) == id <= Len(analyses)
InFlight(id) == Started(id) /\ analyses[id].stage \in {"running", "emitted"}
Handled(id) == Started(id) /\ analyses[id].stage \in {"completed", "failed"}

\* The notifications of analysis id waiting in the primary thread's queue
Waiting(id, signal) ==
    Cardinality({i \in 1..Len(events) :
                    events[i].task = id /\ events[i].signal = signal})

\* C14, safety: an analysis thread that has run has delivered exactly one of
\* analysis_completed and analysis_failed, a thread still running none; a
\* completed notification carries the reply's text.
C14_ExactlyOneNotification ==
    \A id \in 1..Len(analyses) :
        LET c == Waiting(id, "analysis_completed")
            f == Waiting(id, "analysis_failed")
        IN  /\ analyses[id].stage = "running" => c + f = 0
            /\ analyses[id].stage = "emitted" => c + f = 1
            /\ Handled(id) => c + f = 0
            /\ analyses[id].stage = "completed" =>
                   ui.current_analysis # None

\* C14, step: handling the notification of an analysis enables the analyze
\* button and restores its label.
C14_HandlingEnables ==
    [][\A id \in 1..Len(analyses) :
          InFlight(id) /\ Handled(id)' =>
              ui'.analyze_enabled /\ ui'.analyze_text = "analyze crop"]_vars

\* C14: every analysis thread delivers exactly one notification, completed or
\* failed, and every started analysis is eventually handled, which enables
\* the analyze button again.
C14_NotifiedAndReenabled ==
    /\ []C14_ExactlyOneNotification
    /\ C14_HandlingEnables
    /\ \A id \in 1..MaxThreads : InFlight(id) ~> Handled(id)

\* Two analyses were started; one was handled as completed, the other as
\* failed, and the analyze button is enabled again
C14_Witness ==
    /\ Len(analyses) = 2
    /\ {analyses[1].stage, analyses[2].stage} = {"completed", "failed"}
    /\ ui.analyze_enabled
    /\ ui.analyze_text = "analyze crop"


\* C15 as stated: at most one analysis thread is in flight, and the analyze
\* button is disabled from the start of an analysis until its notification
\* has been handled.
C15_OneAnalysisInFlight ==
    /\ Cardinality({id \in 1..Len(analyses) : InFlight(id)}) <= 1
    /\ \A id \in 1..Len(analyses) : InFlight(id) => ~ui.analyze_enabled

\* C16 as stated: the query of the record stored for an analysis is the
\* query that analysis submitted to the model: the text of the voice text box
\* as it was at the click, or the default query for a blank box.
C16_StoredQueryIsSubmitted ==
    \A id \in 1..Len(analyses) :
        analyses[id].stage = "completed" =>
            analyses[id].record.query = analyses[id].query


\* The voice_recognized notifications of recording id waiting in the queue
VoiceWaiting(id) ==
    {i \in 1..Len(events) :
        events[i].task = id /\ events[i].signal = "voice_recognized"}

\* The text C17 gives for a recording: the Cantonese transcription, the
\* English one after UnknownValueError, the fallback in every other case
ClaimedVoiceText(r) ==
    IF r.capture = "audio" /\ r.zh = "text" THEN <<33865, 40644>>
    ELSE IF r.capture = "audio" /\ r.zh = "unknown" /\ r.en = "text"
    THEN <<108, 101, 97, 102>>
    ELSE <<25105, 30340, 30333, 33756, 28858, 20160, 40636, 26371, 26543,
           33806, 65311>>

\* C17: a recording thread that has run has emitted exactly one
\* voice_recognized, with the Cantonese text, the English text after
\* UnknownValueError, or the fallback text; English recognition was tried
\* only after Cantonese recognition had failed; a thread still running, or
\* one whose notification was handled, has none waiting.
C17_OneVoiceNotification ==
    \A id \in 1..Len(recordings) :
        LET r == recordings[id]
            w == VoiceWaiting(id)
        IN  IF r.stage = "emitted"
            THEN /\ Cardinality(w) = 1
                 /\ \A i \in w : events[i].arg = ClaimedVoiceText(r)
                 /\ r.en # "not tried" => r.capture = "audio" /\ r.zh # "text"
            ELSE w = {}

\* A recording whose Cantonese recognition raised UnknownValueError and whose
\* English recognition succeeded has its English text waiting, and another
\* whose listening timed out has the fallback text waiting
C17_Witness ==
    /\ Len(recordings) = 2
    /\ recordings[1].stage = "emitted" /\ recordings[2].stage = "emitted"
    /\ recordings[1].zh = "unknown" /\ recordings[1].en = "text"
    /\ recordings[2].capture = "timeout"
    /\ \E i, j \in 1..Len(events) :
          /\ events[i].task = 1 /\ events[i].arg = <<108, 101, 97, 102>>
          /\ events[j].task = 2 /\ events[j].signal = "voice_recognized"
          /\ events[j].arg # <<108, 101, 97, 102>>
          /\ events[j].arg # <<33865, 40644>>


\* C19, capture: a capture_image that finds the camera unavailable or reads
\* no frame shows a warning and leaves current_image, current_analysis and
\* the analyze button as they were.
C19_CaptureErrorKeeps ==
    \A frame \in {"closed", "none", "written", "unwritten"} :
        CaptureImage(frame) /\ (~dev.camera \/ frame \in {"closed", "none"}) =>
            /\ ui'.dialog \in {"warning: camera", "warning: capture"}
            /\ ui'.current_image = ui.current_image
            /\ ui'.current_analysis = ui.current_analysis
            /\ ui'.analyze_enabled = ui.analyze_enabled

\* C19, recording: a toggle_recording without a recognizer shows a warning,
\* starts no recording thread and leaves is_recording as it was.
C19_VoiceErrorKeeps ==
    ToggleRecording /\ ~dev.recognizer =>
        /\ ui'.dialog = "warning: voice"
        /\ recordings' = recordings
        /\ ui'.is_recording = ui.is_recording

\* C19: a device error shows a warning and changes no analysis state and no
\* recording state.
C19_DeviceErrorKeepsState ==
    [][C19_CaptureErrorKeeps /\ C19_VoiceErrorKeeps]_vars

\* A capture has just read no frame while an analysis of the loaded image is
\* in flight: the warning is shown, the image is still the loaded one and the
\* analyze button is still disabled
C19_Witness ==
    /\ ui.dialog = "warning: capture"
    /\ ui.current_image = "leaf.png"
    /\ ~ui.analyze_enabled
    /\ \E id \in 1..Len(analyses) : InFlight(id)


\* A recording thread that has not delivered its result yet
Recording(id) ==
    id <= Len(recordings) /\ recordings[id].stage \in {"running", "emitted"}

\* C20, stop: a click that stops the recording touches neither the recording
\* threads nor the notifications queued.
C20_StopKeepsThread ==
    ToggleRecording /\ dev.recognizer /\ ui.is_recording =>
        recordings' = recordings /\ events' = events

\* C20, delivery: handling the voice_recognized of a recording puts its text
\* into the voice text box.
C20_DeliveryOverwrites ==
    \A id \in 1..Len(recordings) :
        Recording(id) /\ recordings'[id].stage = "handled" =>
            /\ Head(events).task = id
            /\ ui'.voice_text = Head(events).arg

\* C20: stopping a recording does not cancel its thread; every recording
\* thread, stopped or not, still delivers its voice_recognized, whose text
\* overwrites the voice text box.
C20_StopDoesNotCancel ==
    /\ [][C20_StopKeepsThread /\ C20_DeliveryOverwrites]_vars
    /\ \A id \in 1..MaxThreads :
          Recording(id) ~> (id <= Len(recordings) /\ recordings[id].stage = "handled")

\* The only recording was stopped by a click (the flag is down, the button
\* shows "record") and its thread has run all the same: its notification
\* waits in the queue while the box holds what the user typed
C20_Witness ==
    /\ Len(recordings) = 1
    /\ recordings[1].stage = "emitted"
    /\ ~ui.is_recording /\ ui.record_text = "record"
    /\ ui.voice_text = <<SP, 113, 63, SP>>
    /\ \E i \in 1..Len(events) :
          /\ events[i].task = 1
          /\ events[i].signal = "voice_recognized"
          /\ events[i].arg # ui.voice_text


\* C21 as stated: the image that was current at the click is the image the
\* thread sends to the model, and its path is the image_path of the record
\* stored on completion, whatever the user captures or loads in between.
C21_RecordPairsAnalysedImage ==
    \A id \in 1..Len(analyses) :
        /\ analyses[id].stage \in {"emitted", "completed"}
              /\ analyses[id].sent # ""
              => analyses[id].sent = analyses[id].requested
        /\ analyses[id].stage = "completed" =>
              analyses[id].record.image_path = analyses[id].sent

\* C22 as stated: is_recording is up, and the record button shows "stop",
\* exactly when a recording thread has not delivered its result yet, and at
\* most one such thread exists.
C22_FlagIffRecording ==
    LET running == {id \in 1..Len(recordings) : Recording(id)}
    IN  /\ ui.is_recording <=> running # {}
        /\ ui.is_recording <=> ui.record_text = "stop"
        /\ Cardinality(running) <= 1


\* C23 as stated: once no record() thread is listening any more,
\* stop_recording does not sleep in its wait loop, is_recording is down when
\* it has returned, and a start_recording called after it is accepted.
C23_FlagClearsAfterRecording ==
    LET r == caller.returned
    IN  "fn" \in DOMAIN r =>
          /\ r.fn = "stop_recording" =>
                /\ ~r.waited_idle
                /\ Listening = {} => ~voice_system.is_recording
          /\ r.fn = "start_recording" /\ r.after = "stop_recording"
                /\ ~r.listening
                => r.value[1]


\* C24: an enabled save or speak button has an analysis to work on, and an
\* enabled analyze button has an image.
C24_EnabledButtonsHaveData ==
    /\ ui.save_enabled \/ ui.speak_enabled => ui.current_analysis # None
    /\ ui.analyze_enabled => ui.current_image # ""

\* All three buttons are enabled after a completed analysis, with its record
\* and its image in place
C24_Witness ==
    /\ ui.save_enabled /\ ui.speak_enabled /\ ui.analyze_enabled
    /\ ui.current_analysis # None
    /\ ui.current_image = "leaf.png"
    /\ \E id \in 1..Len(analyses) : analyses[id].stage = "completed"


\* C25, step: handling a failed analysis leaves current_analysis,
\* current_image and the save and speak buttons as they were.
C25_FailureKeeps ==
    \A id \in 1..Len(analyses) :
        InFlight(id) /\ analyses'[id].stage = "failed" =>
            /\ ui'.current_analysis = ui.current_analysis
            /\ ui'.current_image = ui.current_image
            /\ ui'.save_enabled = ui.save_enabled
            /\ ui'.speak_enabled = ui.speak_enabled

\* C25, step: current_analysis changes only when a completed analysis is
\* handled, and then it is the record of that analysis.
C25_RecordOnlyOnCompletion ==
    ui'.current_analysis # ui.current_analysis =>
        \E id \in 1..Len(analyses) :
            /\ InFlight(id)
            /\ analyses'[id].stage = "completed"
            /\ ui'.current_analysis = analyses'[id].record

\* C25, state: what a save has written is the current record, which is the
\* record of an analysis that completed; without one there is no record.
C25_SaveWritesRecord ==
    LET done == {id \in 1..Len(analyses) : analyses[id].stage = "completed"}
    IN  /\ done = {} <=> ui.current_analysis = None
        /\ ui.written # None =>
              /\ ui.written = ui.current_analysis
              /\ \E id \in done : analyses[id].record = ui.written

\* C25: a failed analysis produces no record and changes neither the record,
\* the image nor the save and speak buttons, so a save after a failure writes
\* the record of the most recent analysis that completed.
C25_FailedLeavesRecord ==
    /\ [][C25_FailureKeeps /\ C25_RecordOnlyOnCompletion]_vars
    /\ []C25_SaveWritesRecord

\* The first analysis completed, the second failed, and the save that
\* followed has written the record of the first
C25_Witness ==
    /\ Len(analyses) = 2
    /\ analyses[1].stage = "completed" /\ analyses[2].stage = "failed"
    /\ events = <<>>
    /\ ui.dialog = "information: saved"
    /\ ui.written = analyses[1].record


\* The three conditions C26 names: an image is selected, the model is
\* available and the image file exists
ClaimedAnalyzable ==
    /\ ui.current_image # ""
    /\ dev.gemini_model
    /\ ui.current_image \in {"crop_image.jpg", "leaf.png"}

\* C26, start: an analysis thread starts only in a window that meets the
\* three conditions, and it is started for the current image.
C26_StartsOnlyWhenAnalyzable ==
    Len(analyses') > Len(analyses) =>
        /\ ClaimedAnalyzable
        /\ analyses'[Len(analyses')].requested = ui.current_image
        /\ analyses'[Len(analyses')].stage = "running"

\* C26, refusal: a click on analyze in a window that fails one of the three
\* conditions shows a warning, starts no thread, queues nothing and leaves the
\* analyze button, its label, current_image and current_analysis as they were.
C26_RefusalKeeps ==
    AnalyzeCrop /\ ~ClaimedAnalyzable =>
        /\ ui'.dialog \in {"warning: no image", "warning: AI", "warning: file"}
        /\ analyses' = analyses
        /\ events' = events
        /\ ui'.analyze_enabled = ui.analyze_enabled
        /\ ui'.analyze_text = ui.analyze_text
        /\ ui'.current_image = ui.current_image
        /\ ui'.current_analysis = ui.current_analysis

\* C26: analyze_crop starts a thread only when an image is selected, the
\* model is available and the file exists; otherwise it warns and changes
\* nothing.
C26_ChecksBeforeAnalysis ==
    [][C26_StartsOnlyWhenAnalyzable /\ C26_RefusalKeeps]_vars

\* A click on analyze has just been refused for a captured image whose file
\* was never written, with the model available: the file warning is shown,
\* no thread was started and the button is still enabled
C26_Witness ==
    /\ ui.dialog = "warning: file"
    /\ dev.gemini_model
    /\ ui.current_image = "crop_image_unwritten.jpg"
    /\ ui.analyze_enabled /\ ui.analyze_text = "analyze crop"
    /\ analyses = <<>> /\ events = <<>>

===========================================================================
